---- MODULE Spec2Model ----
(***************************************************************************)
(* A model of the Solana RPC connection manager (SolanaConnectionManager), *)
(* of the retrying liveness check it runs through p-retry, of its p-queue  *)
(* rate-limit queues, and of the two log-subscription monitors             *)
(* (TransactionMonitor, SolGuardRealTimeMonitor).                          *)
(*                                                                         *)
(* One step of the model is one synchronous segment of the JavaScript      *)
(* code: the event loop runs a segment to its next await without           *)
(* interleaving, so each segment is atomic.                                *)
(***************************************************************************)
EXTENDS Integers, Sequences, FiniteSets, TLC

\* ------------------------------------------------------------------ config

\* A syntactically valid URL that is not among config.endpoints: validateConfig
\* accepts it as defaultEndpoint (z.string().url()).
Unconfigured == "X"

\* DEFAULT_CONFIG.maxRetries
MaxRetries == 3

\* DEFAULT_CONFIG.circuitBreaker.threshold
DefaultThreshold == 5

\* DEFAULT_CONFIG.circuitBreaker.timeout (60000 ms), in whole ticks of the
\* model's clock: a tick is a lapse of time longer than the timeout and shorter
\* than twice the timeout.
CircuitTimeout == 0

\* ------------------------------------------------------------------ bounds

\* getConnection calls made over a run (each runs to its end: up to
\* MaxRetries + 1 attempts).
NumCalls == 2

\* Probe latencies (Date.now() - startTime) range over 1..MaxLatency.
MaxLatency == 1

\* The subscription ids the provider hands out range over 0..MaxSubscriptionId.
MaxSubscriptionId == 1

\* The program ids (addresses) subscribed to.
Programs == {"Prog1", "Prog2"}

\* The clock of the timed runs counts TicksPerSecond ticks to the second (the
\* PQueue interval of 1000 ms) and stops at MaxTime.
TicksPerSecond == 2

MaxTime == 5

\* getConnection calls made over a timed run.
NumRateCalls == 5

NoUrl == "none"

VARIABLES
    endpoints,        \* config.endpoints: the urls, in the order of the array
    rateLimit,        \* config.endpoints[i].rateLimit: url -> {rps, burst}, burst 0 if absent
    threshold,        \* config.circuitBreaker.threshold
    connections,      \* keys of this.connections
    healthOrder,      \* keys of this.healthStatus in insertion order
    healthStatus,     \* this.healthStatus: url -> EndpointHealth
    circuitBreakers,  \* this.circuitBreakers: url -> {failures, lastFailure}
    currentEndpoint,  \* this.currentEndpoint
    timerOn,          \* this.healthCheckInterval is an active timer
    probes,           \* urls with a getSlot() of checkEndpointsHealth in flight
    requestQueues,    \* keys of this.requestQueues
    pq,               \* the PQueue objects: url -> queue state
    calls,            \* the getConnection calls: slot -> call state
    closing,          \* position of close(): NotClosing, the index of the awaited queue, Closed
    lastSwitch,       \* the console.warn of switchToHealthyEndpoint in the last step
    monitorConn,          \* TransactionMonitor.connection: the url of the Connection it was built with
    programSubscriptions, \* TransactionMonitor.programSubscriptions: programId -> subscriptionId
    logListeners,         \* the onLogs listeners registered on that Connection: id -> programId
    cache,                \* TransactionMonitor.cache: the programIds with parsed logs cached
    activeSubscriptions,  \* SolGuardRealTimeMonitor.activeSubscriptions: address -> id its closure returns
    monitoringTargets,    \* keys of SolGuardRealTimeMonitor.monitoringTargets
    rtListeners,          \* the onLogs listeners registered on the real-time monitor's Connection
    monOp,                \* the latest monitor operation, or the event it emitted
    now,                  \* Date.now(), in ticks of 1 / TicksPerSecond seconds
    timerDue,             \* per PQueue: when its interval or resume timer fires next (intervalEnd)
    startLog,             \* per PQueue: the times within the last second at which a task began
    rpcLog,               \* per endpoint: the times within the last second of the RPC calls sent
    switchRequest,        \* the url passed to switchEndpoint in the last step, NoUrl if it was another step
    waitingAtClose,       \* the calls that were waiting in a PQueue when close() was called
    failedWith,           \* the kind of error getEpochInfo rejected with in the last step, NoError if none
    riskCache,            \* RiskScoreService.cache: the entries {key, value, timestamp} in Map order
    riskTime,             \* Date.now() as RiskScoreService reads it, in ticks
    riskCalls,            \* the calculateRiskScore calls: slot -> call state
    activeWallet,         \* WalletAdapterManager.activeWallet is set (not null)
    connecting,           \* WalletAdapterManager._connecting
    walletConnected,      \* the registered wallet's connected
    walletInstalled,      \* the registered wallet's readyState is Installed
    autoConnectTimeout,   \* the setTimeout of the constructor is pending
    connectCalls          \* the connect() calls: slot -> position (slot 0 is autoConnect's)

cfgVars == <<endpoints, rateLimit, threshold>>

monVars == <<monitorConn, programSubscriptions, logListeners, cache, activeSubscriptions,
             monitoringTargets, rtListeners, monOp>>

mgrVars == <<connections, healthOrder, healthStatus, circuitBreakers, currentEndpoint,
             timerOn, probes, requestQueues, pq, calls, closing, lastSwitch>>

rateVars == <<now, timerDue, startLog, rpcLog>>

opVars == <<switchRequest, waitingAtClose, failedWith>>

riskVars == <<riskCache, riskTime, riskCalls>>

walletVars == <<activeWallet, connecting, walletConnected, walletInstalled, autoConnectTimeout,
                connectCalls>>

svcVars == <<riskVars, walletVars>>

vars == <<cfgVars, mgrVars, monVars, rateVars, opVars, svcVars>>

Urls == {endpoints[i] : i \in DOMAIN endpoints}

Calls == DOMAIN calls

\* No attempt failed in the step.
NoError == "none"

\* close() has not been called.
NotClosing == 0

\* An empty Map.
EmptyMap == [u \in {} |-> 0]

NoSwitch == [to |-> NoUrl, failed |-> NoUrl, by |-> 0]

\* ------------------------------------------------------------------ health

DefaultStats == [totalRequests |-> 0, failedRequests |-> 0, successRate |-> <<100, 1>>]

\* ((totalRequests - failedRequests) / totalRequests) * 100 as the exact
\* fraction <<numerator, denominator>>.
SuccessRate(total, failed) == <<(total - failed) * 100, total>>

InitialHealth == [isHealthy |-> TRUE, latency |-> 0, error |-> FALSE, stats |-> DefaultStats]

\* circuit.lastFailure is kept as its age, Date.now() - circuit.lastFailure in
\* ticks, which is all the code reads of it (recordFailure compares the age
\* with the timeout).  The age stops growing once it is past CircuitTimeout, and
\* while circuit.failures is 0 it is kept as past it: with no failure counted
\* the reset of the count changes nothing, so the code cannot tell the ages
\* apart.  The initial lastFailure of 0 is past it.
Stale == CircuitTimeout + 1

InitialCircuit == [failures |-> 0, lastFailureAge |-> Stale]

\* healthStatus.set(url, h): a new key goes to the end of the Map's order.
SetHealth(hs, url, h) == [u \in DOMAIN hs \cup {url} |-> IF u = url THEN h ELSE hs[u]]

SetOrder(order, url) ==
    IF \E i \in DOMAIN order : order[i] = url THEN order ELSE Append(order, url)

\* recordSuccess, the healthStatus part.
RecordSuccessStats(hs, url) ==
    IF url \in DOMAIN hs
    THEN LET t == hs[url].stats.totalRequests + 1
             f == hs[url].stats.failedRequests
         IN [hs EXCEPT ![url].stats =
                [totalRequests |-> t, failedRequests |-> f, successRate |-> SuccessRate(t, f)]]
    ELSE hs

\* recordSuccess, the circuit breaker part.
RecordSuccessCircuit(cb, url) ==
    IF url \in DOMAIN cb THEN [cb EXCEPT ![url] = [failures |-> 0, lastFailureAge |-> Stale]]
    ELSE cb

\* A recordFailure that counts the request but keeps the stored successRate.
RecordFailureKeepsRate(hs, url) ==
    IF url \in DOMAIN hs
    THEN [hs EXCEPT ![url].isHealthy = FALSE, ![url].error = TRUE,
                    ![url].stats.totalRequests = @ + 1,
                    ![url].stats.failedRequests = @ + 1]
    ELSE hs

\* recordFailure, the healthStatus part.
RecordFailureStats(hs, url) ==
    IF url \in DOMAIN hs
    THEN LET t == hs[url].stats.totalRequests + 1
             f == hs[url].stats.failedRequests + 1
         IN [hs EXCEPT ![url] =
                [isHealthy |-> FALSE, latency |-> hs[url].latency, error |-> TRUE,
                 stats |-> [totalRequests |-> t, failedRequests |-> f,
                            successRate |-> SuccessRate(t, f)]]]
    ELSE hs

\* A recordFailure that never lets the count decay.
CircuitWithoutDecay(cb, url) ==
    LET circuit == IF url \in DOMAIN cb THEN cb[url] ELSE InitialCircuit
    IN [failures |-> circuit.failures + 1, lastFailureAge |-> 0]

\* recordFailure, the circuit breaker part: the entry after the failure.
\* "Reset failure count if the last failure was long enough ago".
CircuitAfterFailure(cb, url) ==
    LET circuit == IF url \in DOMAIN cb THEN cb[url] ELSE InitialCircuit
        kept == IF circuit.lastFailureAge > CircuitTimeout THEN 0 ELSE circuit.failures
    IN [failures |-> kept + 1, lastFailureAge |-> 0]

RecordFailureCircuit(cb, url) ==
    [u \in DOMAIN cb \cup {url} |-> IF u = url THEN CircuitAfterFailure(cb, url) ELSE cb[u]]

\* A circuit that trips one failure early.
TrippedEarly(circuit) == circuit.failures >= threshold - 1

\* recordFailure: "Trip circuit if threshold is exceeded".
Tripped(circuit) == circuit.failures >= threshold

\* A selection that filters nothing: every entry is a candidate.
AllCandidates(order, hs, failedUrl) == order

\* switchToHealthyEndpoint: the healthy entries other than failedUrl, in Map order.
HealthyCandidates(order, hs, failedUrl) ==
    SelectSeq(order, LAMBDA u : hs[u].isHealthy /\ u # failedUrl)

\* The first entry of the stable sort by ascending latency.
LowestLatency(cand, hs) ==
    LET best == CHOOSE i \in DOMAIN cand :
                    \A j \in DOMAIN cand :
                        \/ hs[cand[i]].latency < hs[cand[j]].latency
                        \/ hs[cand[i]].latency = hs[cand[j]].latency /\ i <= j
    IN cand[best]

\* switchToHealthyEndpoint(failedUrl): the endpoint it selects, NoUrl if none.
SwitchTarget(order, hs, failedUrl) ==
    LET cand == HealthyCandidates(order, hs, failedUrl)
    IN IF Len(cand) > 0 THEN LowestLatency(cand, hs) ELSE NoUrl

\* this.currentEndpoint after switchToHealthyEndpoint(failedUrl).
SwitchedEndpoint(order, hs, failedUrl, cur) ==
    IF SwitchTarget(order, hs, failedUrl) # NoUrl THEN SwitchTarget(order, hs, failedUrl) ELSE cur

\* The console.warn of switchToHealthyEndpoint run by call c, if it switched.
SwitchLog(order, hs, failedUrl, c) ==
    IF SwitchTarget(order, hs, failedUrl) # NoUrl
    THEN [to |-> SwitchTarget(order, hs, failedUrl), failed |-> failedUrl, by |-> c]
    ELSE NoSwitch

\* ------------------------------------------------------------------ p-queue

\* The endpoints configured with a rateLimit: each gets a PQueue.
RateLimited == DOMAIN rateLimit

\* intervalCap: endpoint.rateLimit.rps
Rps(u) == rateLimit[u].rps

\* endpoint.rateLimit.burst && {concurrency: burst}
HasBurst(u) == rateLimit[u].burst # 0

Burst(u) == rateLimit[u].burst

\* requestQueues in insertion order (initializeEndpoints walks config.endpoints).
QueueOrder == SelectSeq(endpoints, LAMBDA u : u \in RateLimited)

\* close() has returned.
Closed == Len(QueueOrder) + 1

\* new PQueue({interval: 1000, intervalCap: rps, carryoverConcurrencyCount: true,
\*             concurrency: burst (when given)}).
\* queue: the waiting tasks (call slots) in FIFO order; pending: tasks running;
\* intervalCount: tasks counted against the current interval; intervalId: the
\* interval timer is set; timeoutId: the resume timer is set; windowOpen: the
\* clock has not passed intervalEnd.
EmptyQueue == [queue |-> <<>>, pending |-> 0, intervalCount |-> 0,
               intervalId |-> FALSE, timeoutId |-> FALSE, windowOpen |-> FALSE]

DoesIntervalAllowAnother(u, q) == q.intervalCount < Rps(u)

\* concurrency is Infinity when no burst is configured.
DoesConcurrentAllowAnother(u, q) == ~HasBurst(u) \/ q.pending < Burst(u)

\* PQueue._tryToStartAnother: the queue afterwards and the task started, if any.
TryToStartAnother(u, q) ==
    IF Len(q.queue) = 0
    THEN [q |-> [q EXCEPT !.intervalId = FALSE], started |-> <<>>]
    ELSE LET paused == ~q.intervalId /\ q.windowOpen
             q1 == IF q.intervalId THEN q
                   ELSE IF q.windowOpen THEN [q EXCEPT !.timeoutId = TRUE]
                   ELSE [q EXCEPT !.intervalCount = q.pending]
         IN IF DoesIntervalAllowAnother(u, q1) /\ DoesConcurrentAllowAnother(u, q1)
            THEN LET q2 == [q1 EXCEPT !.queue = Tail(@), !.pending = @ + 1,
                                      !.intervalCount = @ + 1]
                     q3 == IF ~paused /\ ~q2.intervalId
                           THEN [q2 EXCEPT !.intervalId = TRUE, !.windowOpen = TRUE]
                           ELSE q2
                 IN [q |-> q3, started |-> <<Head(q1.queue)>>]
            ELSE [q |-> q1, started |-> <<>>]

\* PQueue._processQueue: while (this._tryToStartAnother()) {}
RECURSIVE ProcessQueue(_, _)
ProcessQueue(u, q) ==
    LET r == TryToStartAnother(u, q)
    IN IF r.started = <<>> THEN r
       ELSE LET rest == ProcessQueue(u, r.q)
            IN [q |-> rest.q, started |-> r.started \o rest.started]

\* PQueue.add(task): enqueue, then _tryToStartAnother.
QueueAdd(u, q, c) == TryToStartAnother(u, [q EXCEPT !.queue = Append(@, c)])

\* PQueue._next, run when a task settles.
QueueNext(u, q) == TryToStartAnother(u, [q EXCEPT !.pending = @ - 1])

\* An _onInterval without carryoverConcurrencyCount: the count restarts at 0.
QueueOnIntervalNoCarryover(u, q) ==
    LET q1 == IF q.intervalCount = 0 /\ q.pending = 0 THEN [q EXCEPT !.intervalId = FALSE] ELSE q
    IN ProcessQueue(u, [q1 EXCEPT !.intervalCount = 0])

\* PQueue._onInterval.
QueueOnInterval(u, q) ==
    LET q1 == IF q.intervalCount = 0 /\ q.pending = 0 THEN [q EXCEPT !.intervalId = FALSE] ELSE q
    IN ProcessQueue(u, [q1 EXCEPT !.intervalCount = q1.pending])

\* PQueue.clear.
QueueClear(q) == [q EXCEPT !.queue = <<>>]

\* PQueue.onIdle resolves.
QueueIdle(q) == q.pending = 0 /\ Len(q.queue) = 0

\* ------------------------------------------------------------------ calls

\* A call slot: pc is "idle" (not called yet), "queued" (waiting in a PQueue),
\* "attempting" (a getEpochInfo is in flight, or its backoff timer is pending),
\* "returned" (resolved with the connection of url) or "raised" (rejected with err:
\* the ConnectionError code, or "rpc" for the error getEpochInfo threw).
\* attempt is pRetry's attemptNumber: the getEpochInfo invocations made so far.
IdleCall == [pc |-> "idle", url |-> NoUrl, attempt |-> 0, err |-> "none"]

SeqRange(s) == {s[i] : i \in DOMAIN s}

\* The tasks a queue starts run executeWithRetry up to its first await: pRetry
\* makes the first attempt at once.
StartCalls(cs, started) ==
    [c \in DOMAIN cs |-> IF c \in SeqRange(started)
                         THEN [cs[c] EXCEPT !.pc = "attempting", !.attempt = 1]
                         ELSE cs[c]]

\* The queue bookkeeping when call c, a task of the queue of its url, settles.
SettleInQueue(c, cs) ==
    IF cs[c].url \in RateLimited
    THEN LET r == QueueNext(cs[c].url, pq[cs[c].url])
         IN /\ pq' = [pq EXCEPT ![cs[c].url] = r.q]
            /\ calls' = StartCalls(cs, r.started)
    ELSE /\ pq' = pq
         /\ calls' = cs

\* ------------------------------------------------------------------ Init

\* The manager right after its constructor, for a configuration of endpoints eps
\* with rate limits rl, circuit breaker threshold thr and defaultEndpoint among
\* defaults (NoUrl: no defaultEndpoint, the first endpoint is taken); the initial
\* round of health probes is in flight.  n is the number of getConnection calls
\* of the run.
Constructed(eps, rl, thr, defaults, n) ==
    /\ endpoints = eps
    /\ rateLimit = rl
    /\ threshold = thr
    /\ connections = SeqRange(eps)
    /\ healthOrder = eps
    /\ healthStatus = [u \in SeqRange(eps) |-> InitialHealth]
    /\ circuitBreakers = [u \in SeqRange(eps) |-> InitialCircuit]
    /\ \E d \in defaults : currentEndpoint = IF d = NoUrl THEN eps[1] ELSE d
    /\ timerOn = TRUE
    /\ probes = SeqRange(eps)
    /\ requestQueues = DOMAIN rl
    /\ pq = [u \in DOMAIN rl |-> EmptyQueue]
    /\ calls = [c \in 1..n |-> IdleCall]
    /\ closing = NotClosing
    /\ lastSwitch = NoSwitch

NoOp == [op |-> "none", target |-> NoUrl]

\* The two monitors right after their constructors; the TransactionMonitor is
\* built with the Connection of url.
MonitorsConstructed(url) ==
    /\ monitorConn = url
    /\ programSubscriptions = EmptyMap
    /\ logListeners = EmptyMap
    /\ cache = {}
    /\ activeSubscriptions = EmptyMap
    /\ monitoringTargets = {}
    /\ rtListeners = EmptyMap
    /\ monOp = NoOp

\* The calculateRiskScore calls that may be in flight together.
NumRiskCalls == 2

\* No score: the call has not returned one.
NoValue == [score |-> -1, level |-> "none"]

IdleRiskCall == [pc |-> "idle", token |-> "", includeHistory |-> FALSE, fetched |-> FALSE,
                 value |-> NoValue]

\* The connect() calls of the application.
NumConnectCalls == 3

\* new RiskScoreService(database, solana): "this.cache = new Map()"; new
\* WalletAdapterManager({autoConnect: true}) and one installed wallet registered.
ServicesConstructed ==
    /\ riskCache = <<>>
    /\ riskTime = 0
    /\ riskCalls = [c \in 1..NumRiskCalls |-> IdleRiskCall]
    /\ activeWallet = FALSE
    /\ connecting = FALSE
    /\ walletConnected = FALSE
    /\ walletInstalled = TRUE
    /\ autoConnectTimeout = TRUE
    /\ connectCalls = [c \in 0..NumConnectCalls |-> "idle"]

\* The clock at construction: the initial health probes have just been sent.
ClockStarted ==
    /\ now = 0
    /\ timerDue = [u \in DOMAIN rateLimit |-> 0]
    /\ startLog = [u \in DOMAIN rateLimit |-> <<>>]
    /\ rpcLog = [u \in SeqRange(endpoints) |-> <<0>>]
    /\ switchRequest = NoUrl
    /\ waitingAtClose = {}
    /\ failedWith = NoError

\* Two endpoints, A with rps 1 and burst 1 and B with no rate limit; the circuit
\* breaker threshold is the default; defaultEndpoint is absent
\* or names no configured endpoint.
Init ==
    /\ Constructed(<<"A", "B">>, "A" :> [rps |-> 1, burst |-> 1], DefaultThreshold,
                   {NoUrl, Unconfigured}, NumCalls)
    /\ MonitorsConstructed("A")
    /\ ClockStarted
    /\ ServicesConstructed

\* ------------------------------------------------------------------ actions

\* getConnection(), up to its first await.
GetConnection(c) ==
    /\ calls[c].pc = "idle"
    /\ c > 1 => calls[c - 1].pc # "idle"
    /\ IF currentEndpoint \notin connections
       THEN /\ calls' = [calls EXCEPT ![c] = [pc |-> "raised", url |-> currentEndpoint,
                                              attempt |-> 0, err |-> "NO_HEALTHY_ENDPOINTS"]]
            /\ pq' = pq
       ELSE IF currentEndpoint \in requestQueues
       THEN LET r == QueueAdd(currentEndpoint, pq[currentEndpoint], c)
                queued == [calls EXCEPT ![c] = [pc |-> "queued", url |-> currentEndpoint,
                                                attempt |-> 0, err |-> "none"]]
            IN /\ pq' = [pq EXCEPT ![currentEndpoint] = r.q]
               /\ calls' = StartCalls(queued, r.started)
       ELSE /\ calls' = [calls EXCEPT ![c] = [pc |-> "attempting", url |-> currentEndpoint,
                                              attempt |-> 1, err |-> "none"]]
            /\ pq' = pq
    /\ lastSwitch' = NoSwitch
    /\ UNCHANGED <<cfgVars, monVars, connections, healthOrder, healthStatus, circuitBreakers,
                   currentEndpoint, timerOn, probes, requestQueues, closing>>

\* executeWithRetry: getEpochInfo resolves; recordSuccess; pRetry resolves.
AttemptSucceed(c) ==
    /\ calls[c].pc = "attempting"
    /\ healthStatus' = RecordSuccessStats(healthStatus, calls[c].url)
    /\ circuitBreakers' = RecordSuccessCircuit(circuitBreakers, calls[c].url)
    /\ SettleInQueue(c, [calls EXCEPT ![c].pc = "returned"])
    /\ lastSwitch' = NoSwitch
    /\ UNCHANGED <<cfgVars, monVars, connections, healthOrder, currentEndpoint, timerOn, probes,
                   requestQueues, closing>>

\* pRetry: an error is retried unless it is a TypeError that is no network
\* error; onFailedAttempt runs only for the errors that may be retried.
Retryable(kind) == kind # "typeError"

\* executeWithRetry's onFailedAttempt: error.attemptNumber >= (maxRetries || 3).
RetriesSwitch(attempt) == attempt >= (IF MaxRetries = 0 THEN 3 ELSE MaxRetries)

\* A retry budget of one attempt more.
RetryOneMore(attempt) == attempt <= MaxRetries + 1

\* The retry module's operation.retry: a further attempt is scheduled.
RetryLeft(attempt) == attempt <= MaxRetries

\* executeWithRetry: getEpochInfo rejects with an error of the given kind;
\* recordFailure (which fails over when the circuit is tripped); for a retryable
\* error onFailedAttempt (which fails over from attempt maxRetries on); then
\* pRetry schedules the next attempt or rejects.
AttemptFail(c, kind) ==
    LET url == calls[c].url
        n == calls[c].attempt
        hs == RecordFailureStats(healthStatus, url)
        cb == RecordFailureCircuit(circuitBreakers, url)
        switches == Tripped(cb[url]) \/ (Retryable(kind) /\ RetriesSwitch(n))
    IN /\ calls[c].pc = "attempting"
       /\ healthStatus' = hs
       /\ circuitBreakers' = cb
       /\ currentEndpoint' = IF switches
                             THEN SwitchedEndpoint(healthOrder, hs, url, currentEndpoint)
                             ELSE currentEndpoint
       /\ lastSwitch' = IF switches THEN SwitchLog(healthOrder, hs, url, c) ELSE NoSwitch
       /\ IF Retryable(kind) /\ RetryLeft(n)
          THEN /\ calls' = [calls EXCEPT ![c].attempt = n + 1]
               /\ pq' = pq
          ELSE SettleInQueue(c, [calls EXCEPT ![c].pc = "raised", ![c].err = "rpc"])
       /\ UNCHANGED <<cfgVars, monVars, connections, healthOrder, timerOn, probes, requestQueues,
                      closing>>

\* The setInterval callback of startHealthChecks: checkEndpointsHealth up to
\* its awaits, one getSlot per connection.  (Init holds the initial round.)
HealthCheckRound ==
    /\ timerOn
    /\ probes' = probes \cup connections
    /\ lastSwitch' = NoSwitch
    /\ UNCHANGED <<cfgVars, monVars, connections, healthOrder, healthStatus, circuitBreakers,
                   currentEndpoint, timerOn, requestQueues, pq, calls, closing>>

\* A probe that stores fresh stats.
ProbedHealthFreshStats(hs, url, ok, latency) ==
    [isHealthy |-> ok, latency |-> IF ok THEN latency ELSE 0, error |-> ~ok,
     stats |-> DefaultStats]

\* The health a probe stores: the stats are copied from the stored entry.
ProbedHealth(hs, url, ok, latency) ==
    [isHealthy |-> ok, latency |-> IF ok THEN latency ELSE 0, error |-> ~ok,
     stats |-> IF url \in DOMAIN hs THEN hs[url].stats ELSE DefaultStats]

\* checkEndpointsHealth: one getSlot settles (ok or not), the entry is replaced.
ProbeSettle(url, ok, latency) ==
    /\ url \in probes
    /\ probes' = probes \ {url}
    /\ healthStatus' = SetHealth(healthStatus, url, ProbedHealth(healthStatus, url, ok, latency))
    /\ healthOrder' = SetOrder(healthOrder, url)
    /\ lastSwitch' = NoSwitch
    /\ UNCHANGED <<cfgVars, monVars, connections, circuitBreakers, currentEndpoint, timerOn,
                   requestQueues, pq, calls, closing>>

\* A switchEndpoint that refuses an endpoint marked unhealthy.
SwitchEndpointHealthyOnly(url) ==
    /\ currentEndpoint' = IF url \in connections /\ healthStatus[url].isHealthy
                           THEN url ELSE currentEndpoint
    /\ lastSwitch' = NoSwitch
    /\ UNCHANGED <<cfgVars, monVars, connections, healthOrder, healthStatus, circuitBreakers, timerOn,
                   probes, requestQueues, pq, calls, closing>>

\* switchEndpoint(url): throws when url has no connection.
SwitchEndpoint(url) ==
    /\ currentEndpoint' = IF url \in connections THEN url ELSE currentEndpoint
    /\ lastSwitch' = NoSwitch
    /\ UNCHANGED <<cfgVars, monVars, connections, healthOrder, healthStatus, circuitBreakers, timerOn,
                   probes, requestQueues, pq, calls, closing>>

\* The interval timer of a PQueue fires (the clock has reached intervalEnd).
QueueInterval(u) ==
    /\ pq[u].intervalId
    /\ LET r == QueueOnInterval(u, [pq[u] EXCEPT !.windowOpen = FALSE])
       IN /\ pq' = [pq EXCEPT ![u] = r.q]
          /\ calls' = StartCalls(calls, r.started)
    /\ lastSwitch' = NoSwitch
    /\ UNCHANGED <<cfgVars, monVars, connections, healthOrder, healthStatus, circuitBreakers,
                   currentEndpoint, timerOn, probes, requestQueues, closing>>

\* The resume timer of a PQueue fires: _onResumeInterval.
QueueResume(u) ==
    /\ pq[u].timeoutId
    /\ LET r == QueueOnInterval(u, [pq[u] EXCEPT !.windowOpen = FALSE])
           q == IF r.q.intervalId THEN r.q
                ELSE [r.q EXCEPT !.intervalId = TRUE, !.windowOpen = TRUE]
       IN /\ pq' = [pq EXCEPT ![u] = [q EXCEPT !.timeoutId = FALSE]]
          /\ calls' = StartCalls(calls, r.started)
    /\ lastSwitch' = NoSwitch
    /\ UNCHANGED <<cfgVars, monVars, connections, healthOrder, healthStatus, circuitBreakers,
                   currentEndpoint, timerOn, probes, requestQueues, closing>>

\* The clock passes intervalEnd of a PQueue whose timers are both unset.
QueueWindowEnd(u) ==
    /\ pq[u].windowOpen /\ ~pq[u].intervalId /\ ~pq[u].timeoutId
    /\ pq' = [pq EXCEPT ![u].windowOpen = FALSE]
    /\ lastSwitch' = NoSwitch
    /\ UNCHANGED <<cfgVars, monVars, connections, healthOrder, healthStatus, circuitBreakers,
                   currentEndpoint, timerOn, probes, requestQueues, calls, closing>>

\* close(): "this.requestQueues.clear(); this.connections.clear();
\* this.healthStatus.clear(); this.circuitBreakers.clear();"
ClearMaps ==
    /\ connections' = {}
    /\ healthOrder' = <<>>
    /\ healthStatus' = EmptyMap
    /\ circuitBreakers' = EmptyMap
    /\ requestQueues' = {}

\* close(), the loop over the queues from the i-th on: each queue is cleared and
\* its onIdle awaited; an idle queue's onIdle is already resolved, so the loop
\* goes on without giving way to a timer or a response. The result is the
\* queues and the position where close() waits (Closed: the loop is over).
RECURSIVE CloseFrom(_, _)
CloseFrom(q, i) ==
    IF i > Len(QueueOrder)
    THEN [pq |-> q, at |-> Closed]
    ELSE LET cleared == [q EXCEPT ![QueueOrder[i]] = QueueClear(@)]
         IN IF QueueIdle(cleared[QueueOrder[i]])
            THEN CloseFrom(cleared, i + 1)
            ELSE [pq |-> cleared, at |-> i]

\* close(), up to the first onIdle that has to wait: the timer is cleared; after
\* the last queue the four Maps are cleared.
CloseStart ==
    /\ closing = NotClosing
    /\ timerOn' = FALSE
    /\ LET r == CloseFrom(pq, 1)
       IN /\ pq' = r.pq
          /\ closing' = r.at
          /\ IF r.at = Closed
             THEN ClearMaps
             ELSE UNCHANGED <<connections, healthOrder, healthStatus, circuitBreakers, requestQueues>>
    /\ lastSwitch' = NoSwitch
    /\ UNCHANGED <<cfgVars, monVars, currentEndpoint, probes, calls>>

\* close(): the awaited onIdle resolves; the loop goes on with the next queue.
CloseContinue ==
    /\ closing \in DOMAIN QueueOrder
    /\ QueueIdle(pq[QueueOrder[closing]])
    /\ LET r == CloseFrom(pq, closing + 1)
       IN /\ pq' = r.pq
          /\ closing' = r.at
          /\ IF r.at = Closed
             THEN ClearMaps
             ELSE UNCHANGED <<connections, healthOrder, healthStatus, circuitBreakers, requestQueues>>
    /\ lastSwitch' = NoSwitch
    /\ UNCHANGED <<cfgVars, monVars, currentEndpoint, timerOn, probes, calls>>

\* close() called on a manager whose close() has returned: clearInterval on the
\* cleared handle, no queue left to wait for, the four Maps cleared again.
CloseAgain ==
    /\ closing = Closed
    /\ requestQueues = {}
    /\ timerOn' = FALSE
    /\ ClearMaps
    /\ lastSwitch' = NoSwitch
    /\ UNCHANGED <<cfgVars, monVars, currentEndpoint, probes, pq, calls, closing>>

\* A tick of the clock: every circuit.lastFailure is one tick older.
Aged(circuit) ==
    [circuit EXCEPT !.lastFailureAge = IF @ < Stale THEN @ + 1 ELSE @]

Tick ==
    /\ \E u \in DOMAIN circuitBreakers : circuitBreakers[u].lastFailureAge < Stale
    /\ circuitBreakers' = [u \in DOMAIN circuitBreakers |-> Aged(circuitBreakers[u])]
    /\ lastSwitch' = NoSwitch
    /\ UNCHANGED <<cfgVars, monVars, connections, healthOrder, healthStatus, currentEndpoint,
                   timerOn, probes, requestQueues, pq, calls, closing>>

\* The steps of the manager.  (The clock of the rate-limit windows is not
\* followed: the PQueue timers fire at any time.)
Next ==
    \/ \E c \in Calls : GetConnection(c) /\ UNCHANGED <<rateVars, opVars, svcVars>>
    \/ \E c \in Calls : AttemptSucceed(c) /\ UNCHANGED <<rateVars, opVars, svcVars>>
    \/ \E c \in Calls, kind \in {"transient", "typeError"} : AttemptFail(c, kind) /\ UNCHANGED <<rateVars, opVars, svcVars>>
    \/ HealthCheckRound /\ UNCHANGED <<rateVars, opVars, svcVars>>
    \/ \E u \in Urls, ok \in BOOLEAN, latency \in 1..MaxLatency : ProbeSettle(u, ok, latency) /\ UNCHANGED <<rateVars, opVars, svcVars>>
    \/ \E u \in Urls \cup {Unconfigured} : SwitchEndpoint(u) /\ UNCHANGED <<rateVars, opVars, svcVars>>
    \/ \E u \in RateLimited : QueueInterval(u) /\ UNCHANGED <<rateVars, opVars, svcVars>>
    \/ \E u \in RateLimited : QueueResume(u) /\ UNCHANGED <<rateVars, opVars, svcVars>>
    \/ \E u \in RateLimited : QueueWindowEnd(u) /\ UNCHANGED <<rateVars, opVars, svcVars>>
    \/ CloseStart /\ UNCHANGED <<rateVars, opVars, svcVars>>
    \/ CloseContinue /\ UNCHANGED <<rateVars, opVars, svcVars>>
    \/ CloseAgain /\ UNCHANGED <<rateVars, opVars, svcVars>>
    \/ Tick /\ UNCHANGED <<rateVars, opVars, svcVars>>

Spec == Init /\ [][Next]_vars

\* ------------------------------------------------------------------ failover

\* The step is a failed attempt of call c: executeWithRetry's catch block ran.
FailedAttempt(c) ==
    /\ calls[c].pc = "attempting"
    /\ \/ calls'[c].pc = "raised"
       \/ calls'[c].attempt = calls[c].attempt + 1

\* The step is getConnection called as call c.
Called(c) == calls[c].pc = "idle" /\ calls'[c].pc # "idle"

\* Every endpoint has a health entry and none is marked healthy.
NoneHealthy == \A u \in Urls : u \in DOMAIN healthStatus /\ ~healthStatus[u].isHealthy

\* C1, as the specification states it: a failover away from url happens only
\* when url's consecutive-failure count has reached the threshold.
C1_FailoverOnlyAtThreshold ==
    lastSwitch # NoSwitch => circuitBreakers[lastSwitch.failed].failures >= threshold

\* C1, as the code has it: a failover away from url happens only in a step
\* that records a failed attempt on url, and only when url's consecutive-failure
\* count has reached the threshold or the failed attempt is attempt number
\* maxRetries or later of its call; and a failed attempt that brings the count
\* to the threshold fails over whenever another endpoint is marked healthy.
C1_FailoverAtThresholdOrRetries ==
    [][/\ lastSwitch' # NoSwitch =>
            /\ FailedAttempt(lastSwitch'.by)
            /\ calls[lastSwitch'.by].url = lastSwitch'.failed
            /\ \/ circuitBreakers'[lastSwitch'.failed].failures >= threshold
               \/ calls[lastSwitch'.by].attempt >= MaxRetries
       /\ \A c \in Calls :
            (/\ FailedAttempt(c)
             /\ circuitBreakers'[calls[c].url].failures >= threshold
             /\ \E u \in DOMAIN healthStatus' :
                    u # calls[c].url /\ healthStatus'[u].isHealthy)
            => lastSwitch'.failed = calls[c].url]_vars

\* A failover at the threshold after a failed attempt before attempt maxRetries.
C1_Witness ==
    /\ lastSwitch # NoSwitch
    /\ circuitBreakers[lastSwitch.failed].failures >= threshold
    /\ calls[lastSwitch.by].pc = "attempting"
    /\ calls[lastSwitch.by].attempt <= MaxRetries

\* C2: when switchToHealthyEndpoint(failedUrl) finds a target and switches, the
\* new current endpoint differs from failedUrl and is a configured endpoint.
C2_FailoverTarget ==
    lastSwitch # NoSwitch =>
        /\ currentEndpoint = lastSwitch.to
        /\ lastSwitch.to # lastSwitch.failed
        /\ lastSwitch.to \in Urls

\* A failover from A to B that changed the current endpoint.
C2_Witness ==
    /\ lastSwitch # NoSwitch
    /\ lastSwitch.failed = "A"
    /\ currentEndpoint = "B"

\* C3: when no endpoint is marked healthy, a failover leaves the current
\* endpoint unchanged, and a getConnection call raises NO_HEALTHY_ENDPOINTS.
C3_NoHealthyRaises ==
    [][\A c \in Calls :
        /\ (FailedAttempt(c) /\ \A u \in Urls : u \in DOMAIN healthStatus' =>
                                                    ~healthStatus'[u].isHealthy)
           => currentEndpoint' = currentEndpoint
        /\ (Called(c) /\ NoneHealthy)
           => calls'[c].pc = "raised" /\ calls'[c].err = "NO_HEALTHY_ENDPOINTS"]_vars

\* C4: for every endpoint, successRate is 100 * (totalRequests -
\* failedRequests) / totalRequests when totalRequests > 0, and 100 when
\* totalRequests = 0.  (Compared as fractions, without the rounding of the
\* floating-point division.)
C4_SuccessRate ==
    \A u \in DOMAIN healthStatus :
        LET s == healthStatus[u].stats
        IN IF s.totalRequests > 0
           THEN s.successRate[1] * s.totalRequests
                    = 100 * (s.totalRequests - s.failedRequests) * s.successRate[2]
           ELSE s.successRate[1] = 100 * s.successRate[2]

\* An endpoint with successes and failures recorded and a probe's latency stored.
C4_Witness ==
    \E u \in DOMAIN healthStatus :
        /\ healthStatus[u].stats.totalRequests >= 3
        /\ healthStatus[u].stats.failedRequests >= 1
        /\ healthStatus[u].stats.failedRequests < healthStatus[u].stats.totalRequests
        /\ healthStatus[u].latency > 0

\* C5: with retries = 3 a call invokes the operation at most 4 times, and
\* invokes it no more after the first attempt that succeeds.
C5_AtMostFourAttempts ==
    [][\A c \in Calls :
        /\ calls'[c].attempt <= MaxRetries + 1
        /\ calls'[c].pc = "returned" => calls'[c].attempt = calls[c].attempt]_vars

\* A call that returned on its last attempt and one that returned on its first.
C5_Witness ==
    /\ \E c \in Calls : calls[c].pc = "returned" /\ calls[c].attempt = MaxRetries + 1
    /\ \E c \in Calls : calls[c].pc = "returned" /\ calls[c].attempt = 1

\* C6: a getConnection call whose every attempt failed ends in an error only
\* if no other endpoint is marked healthy.
C6_RaisesOnlyWithoutAlternate ==
    [][\A c \in Calls :
        (/\ FailedAttempt(c)
         /\ calls'[c].pc = "raised"
         /\ calls[c].attempt = MaxRetries + 1)
        => SwitchTarget(healthOrder', healthStatus', calls[c].url) = NoUrl]_vars

\* The endpoint a getConnection call made now is sent to, NoUrl if it raises.
Dispatched == IF currentEndpoint \in connections THEN currentEndpoint ELSE NoUrl

\* C7: when every endpoint is marked unhealthy and a health probe marks an
\* endpoint healthy (the manager is not closed and holds its connection), the
\* next getConnection call goes to that endpoint.
C7_ProbeHealedEndpointServes ==
    [][\A u \in Urls :
        (/\ NoneHealthy
         /\ closing = NotClosing
         /\ u \in connections
         /\ u \in DOMAIN healthStatus'
         /\ healthStatus'[u].isHealthy)
        => Dispatched' = u]_vars

\* C8: a failure recorded for an endpoint whose count had already reached the
\* threshold, and that is still marked unhealthy, runs no failover and leaves
\* the current endpoint alone.
C8_FailoverOncePerTrip ==
    [][\A c \in Calls :
        (/\ FailedAttempt(c)
         /\ calls[c].url \in DOMAIN circuitBreakers
         /\ calls[c].url \in DOMAIN healthStatus
         /\ circuitBreakers[calls[c].url].failures >= threshold
         /\ circuitBreakers[calls[c].url].lastFailureAge <= CircuitTimeout
         /\ ~healthStatus[calls[c].url].isHealthy)
        => lastSwitch' = NoSwitch /\ currentEndpoint' = currentEndpoint]_vars

\* The step is a successful attempt of call c: recordSuccess ran.
SucceededAttempt(c) == calls[c].pc = "attempting" /\ calls'[c].pc = "returned"

\* C15: recordSuccess(url) sets url's consecutive failures to 0; recordFailure(url)
\* sets them to 1 when the time since url's previous failure exceeds the circuit
\* breaker timeout, and to the previous value plus 1 otherwise.
C15_ConsecutiveFailures ==
    [][\A c \in Calls :
        LET u == calls[c].url
        IN /\ (SucceededAttempt(c) /\ u \in DOMAIN circuitBreakers)
              => circuitBreakers'[u].failures = 0
           /\ FailedAttempt(c)
              => circuitBreakers'[u].failures =
                     IF u \in DOMAIN circuitBreakers
                        /\ circuitBreakers[u].lastFailureAge <= CircuitTimeout
                     THEN circuitBreakers[u].failures + 1
                     ELSE 1]_vars

\* An endpoint that never succeeded, with three failures recorded and a count
\* of 1: the count decayed before the last failure.
C15_Witness ==
    \E u \in DOMAIN circuitBreakers \cap DOMAIN healthStatus :
        /\ circuitBreakers[u].failures = 1
        /\ circuitBreakers[u].lastFailureAge = 0
        /\ healthStatus[u].stats.failedRequests >= 3
        /\ healthStatus[u].stats.totalRequests = healthStatus[u].stats.failedRequests

\* The step is a health probe of u settling, or the start of a round.
ProbeSettled(u) == u \in probes /\ u \notin probes'

RoundStarted == probes' # probes /\ probes \subseteq probes'

\* C16: a health-check round changes only the probed endpoints' isHealthy,
\* latency and error: never the current endpoint, the request statistics or
\* the circuit breakers, and a probe failure runs no failover.
C16_HealthCheckFrame ==
    [][/\ RoundStarted => UNCHANGED <<currentEndpoint, healthStatus, circuitBreakers>>
       /\ \A u \in Urls :
            ProbeSettled(u) =>
                /\ currentEndpoint' = currentEndpoint
                /\ circuitBreakers' = circuitBreakers
                /\ lastSwitch' = NoSwitch
                /\ \A v \in DOMAIN healthStatus \ {u} : healthStatus'[v] = healthStatus[v]
                /\ u \in DOMAIN healthStatus
                   => healthStatus'[u].stats = healthStatus[u].stats]_vars

\* The current endpoint marked unhealthy by a probe (it has requests recorded,
\* none failed) while the other endpoint is healthy.
C16_Witness ==
    /\ currentEndpoint \in DOMAIN healthStatus
    /\ ~healthStatus[currentEndpoint].isHealthy
    /\ healthStatus[currentEndpoint].stats.totalRequests >= 1
    /\ healthStatus[currentEndpoint].stats.failedRequests = 0
    /\ \E v \in DOMAIN healthStatus : healthStatus[v].isHealthy

\* The timer is cancelled and no queue, connection, health entry or circuit
\* breaker is held.
Released ==
    /\ ~timerOn
    /\ requestQueues = {}
    /\ connections = {}
    /\ healthStatus = EmptyMap
    /\ circuitBreakers = EmptyMap

\* C18: once close() has returned, the timer is cancelled and every queue,
\* connection, health entry and circuit breaker is released (and a further
\* close() leaves it so).
C18_ReleasedAfterClose == closing = Closed => Released

\* C26: an endpoint marked healthy has fewer consecutive failures than the
\* threshold.
C26_HealthyBelowThreshold ==
    \A u \in DOMAIN healthStatus \cap DOMAIN circuitBreakers :
        healthStatus[u].isHealthy => circuitBreakers[u].failures < threshold

\* C27: until close() is called the current endpoint is a configured endpoint,
\* a key of the connection map.
C27_CurrentIsConfigured ==
    closing = NotClosing => currentEndpoint \in Urls /\ currentEndpoint \in connections

\* C28: once close() has returned, no step (a probe or an attempt that was in
\* flight settling) puts an entry into the health or the circuit-breaker Map.
C28_CloseIsFinal ==
    [][closing = Closed =>
        /\ DOMAIN healthStatus' \subseteq DOMAIN healthStatus
        /\ DOMAIN circuitBreakers' \subseteq DOMAIN circuitBreakers]_vars

\* getHealthyEndpoints(): the entries of healthStatus with isHealthy, in Map order.
GetHealthyEndpoints == SelectSeq(healthOrder, LAMBDA u : healthStatus[u].isHealthy)

\* C20: the healthy-endpoint listing holds exactly the endpoints marked healthy,
\* in ascending order of latency.
C20_HealthyListSorted ==
    LET list == GetHealthyEndpoints
    IN /\ SeqRange(list) = {u \in DOMAIN healthStatus : healthStatus[u].isHealthy}
       /\ \A i, j \in DOMAIN list :
            i < j => healthStatus[list[i]].latency <= healthStatus[list[j]].latency

\* ------------------------------------------------------------ observed requests

\* The step is a switchEndpoint(url) (NoUrl: another operation), or an attempt
\* that failed with an error of the given kind (NoError: another operation); a
\* step that calls close() notes the calls waiting in the queues.
Observed(url, kind) ==
    /\ switchRequest' = url
    /\ failedWith' = kind
    /\ waitingAtClose' = IF closing = NotClosing /\ closing' # NotClosing
                          THEN {c \in Calls : calls[c].pc = "queued"}
                          ELSE waitingAtClose
    /\ UNCHANGED <<rateVars, svcVars>>

Requested(url) == Observed(url, NoError)

FailedWith(kind) == Observed(NoUrl, kind)

\* The errors getEpochInfo rejects with: a timeout, reset or 5xx response (an
\* Error), the RPC node's rejection of a malformed request (an Error), and a
\* TypeError that is not a network error.
ErrorKinds == {"transient", "malformed", "typeError"}

\* Two endpoints without rate limits.
InitRetry ==
    /\ Constructed(<<"A", "B">>, EmptyMap, DefaultThreshold, {NoUrl}, NumCalls)
    /\ MonitorsConstructed("A")
    /\ ClockStarted
    /\ ServicesConstructed

\* Runs of getConnection calls whose attempts fail with every kind of error.
NextRetry ==
    \/ \E c \in Calls : GetConnection(c) /\ Requested(NoUrl)
    \/ \E c \in Calls : AttemptSucceed(c) /\ Requested(NoUrl)
    \/ \E c \in Calls, kind \in ErrorKinds : AttemptFail(c, kind) /\ FailedWith(kind)

SpecRetry == InitRetry /\ [][NextRetry]_vars

\* Three endpoints without rate limits, and one call.
InitThree ==
    /\ Constructed(<<"A", "B", "C">>, EmptyMap, DefaultThreshold, {NoUrl}, 1)
    /\ MonitorsConstructed("A")
    /\ ClockStarted
    /\ ServicesConstructed

\* Runs of one call with health probes and the operator's switchEndpoint.
NextThree ==
    \/ \E c \in Calls : GetConnection(c) /\ Requested(NoUrl)
    \/ \E c \in Calls : AttemptSucceed(c) /\ Requested(NoUrl)
    \/ \E c \in Calls : AttemptFail(c, "transient") /\ FailedWith("transient")
    \/ HealthCheckRound /\ Requested(NoUrl)
    \/ \E u \in Urls, ok \in BOOLEAN, latency \in 1..MaxLatency :
            ProbeSettle(u, ok, latency) /\ Requested(NoUrl)
    \/ \E u \in Urls : SwitchEndpoint(u) /\ Requested(u)

SpecThree == InitThree /\ [][NextThree]_vars

\* C25: a failure recorded for an endpoint that is not the current one leaves
\* the current endpoint unchanged.
C25_FailoverOnlyFromCurrent ==
    [][\A c \in Calls :
        (FailedAttempt(c) /\ calls[c].url # currentEndpoint)
        => currentEndpoint' = currentEndpoint]_vars

\* C21: an attempt is repeated only after a transient error; after any other
\* error the call raises at once, with no further attempt.
C21_RetryOnlyTransient ==
    [][\A c \in Calls :
        (calls[c].pc = "attempting" /\ calls'[c].attempt = calls[c].attempt + 1)
        => failedWith' = "transient"]_vars

\* A circuit breaker threshold that one call's attempts reach.
LowThreshold == 2

\* The manager of Init with a low threshold and one call.
InitSwitch ==
    /\ Constructed(<<"A", "B">>, "A" :> [rps |-> 1, burst |-> 1], LowThreshold,
                   {NoUrl, Unconfigured}, 1)
    /\ MonitorsConstructed("A")
    /\ ClockStarted
    /\ ServicesConstructed

\* With one call no task is ever added to a paused queue, so no resume timer
\* is armed.
NextSwitch ==
    \/ \E c \in Calls : GetConnection(c) /\ Requested(NoUrl)
    \/ \E c \in Calls : AttemptSucceed(c) /\ Requested(NoUrl)
    \/ \E c \in Calls, kind \in {"transient", "typeError"} : AttemptFail(c, kind) /\ FailedWith(kind)
    \/ HealthCheckRound /\ Requested(NoUrl)
    \/ \E u \in Urls, ok \in BOOLEAN, latency \in 1..MaxLatency :
            ProbeSettle(u, ok, latency) /\ Requested(NoUrl)
    \/ \E u \in Urls \cup {Unconfigured} : SwitchEndpoint(u) /\ Requested(u)
    \/ \E u \in RateLimited : QueueInterval(u) /\ Requested(NoUrl)
    \/ \E u \in RateLimited : QueueWindowEnd(u) /\ Requested(NoUrl)
    \/ CloseStart /\ Requested(NoUrl)
    \/ CloseContinue /\ Requested(NoUrl)
    \/ CloseAgain /\ Requested(NoUrl)
    \/ Tick /\ Requested(NoUrl)

SpecSwitch == InitSwitch /\ [][NextSwitch]_vars

\* What switchEndpoint must leave alone.
SwitchFrame ==
    UNCHANGED <<cfgVars, monVars, connections, healthOrder, healthStatus, circuitBreakers, timerOn,
                probes, requestQueues, pq, calls, closing>>

NumCloseCalls == 3

\* Both endpoints are rate-limited, with one request per second.
InitClose ==
    /\ Constructed(<<"A", "B">>, [u \in {"A", "B"} |-> [rps |-> 1, burst |-> 0]],
                   DefaultThreshold, {NoUrl}, NumCloseCalls)
    /\ MonitorsConstructed("A")
    /\ ClockStarted
    /\ ServicesConstructed

\* Runs in which every attempt succeeds; the operator switches endpoints and
\* closes the manager.
NextClose ==
    \/ \E c \in Calls : GetConnection(c) /\ Requested(NoUrl)
    \/ \E c \in Calls : AttemptSucceed(c) /\ Requested(NoUrl)
    \/ \E u \in Urls : SwitchEndpoint(u) /\ Requested(u)
    \/ \E u \in RateLimited : QueueInterval(u) /\ Requested(NoUrl)
    \/ \E u \in RateLimited : QueueResume(u) /\ Requested(NoUrl)
    \/ \E u \in RateLimited : QueueWindowEnd(u) /\ Requested(NoUrl)
    \/ CloseStart /\ Requested(NoUrl)
    \/ CloseContinue /\ Requested(NoUrl)

SpecClose == InitClose /\ [][NextClose]_vars

\* C19: a call that was waiting in a rate-limit queue when close() was called
\* never begins its upstream operation.
C19_WaitingTasksDropped ==
    [][\A c \in waitingAtClose : calls[c].pc = "queued" => calls'[c].pc = "queued"]_vars

\* Every response arrives, every armed timer fires and close() resumes when the
\* queue it waits for is idle.
FairClose ==
    /\ \A c \in 1..NumCloseCalls : WF_vars(AttemptSucceed(c) /\ Requested(NoUrl))
    /\ \A u \in {"A", "B"} :
        /\ WF_vars(QueueInterval(u) /\ Requested(NoUrl))
        /\ WF_vars(QueueResume(u) /\ Requested(NoUrl))
        /\ WF_vars(QueueWindowEnd(u) /\ Requested(NoUrl))
    /\ WF_vars(CloseContinue /\ Requested(NoUrl))

SpecCloseFair == SpecClose /\ FairClose

\* C29: every getConnection call that was made settles: it returns a
\* connection or raises.
C29_EveryCallSettles ==
    \A c \in 1..NumCloseCalls :
        (calls[c].pc # "idle") ~> (calls[c].pc \in {"returned", "raised"})

\* ------------------------------------------------------------------ timed runs

\* A log of times with n entries for now added.
Logged(log, n) == log \o [i \in 1..n |-> now]

\* The entries of a log that lie within the second that ends at time t.
Recent(log, t) == SelectSeq(log, LAMBDA x : t - x < TicksPerSecond)

\* The calls whose task begins in this step, on endpoint u: executeWithRetry
\* sends the first getEpochInfo at once.
Begun(u) == {c \in Calls : /\ calls[c].pc \in {"idle", "queued"}
                           /\ calls'[c].pc = "attempting"
                           /\ calls'[c].url = u}

\* The bookkeeping of a step at the time now, in which the timers of the queues in
\* fired fire: a PQueue whose interval timer is set anew, or fires and stays
\* set, is due one interval later (_initializeIntervalIfNeeded, setInterval).
Timed(fired) ==
    /\ now' = now
    /\ timerDue' = [u \in DOMAIN timerDue |->
                        IF pq'[u].intervalId /\ (~pq[u].intervalId \/ u \in fired)
                        THEN now + TicksPerSecond ELSE timerDue[u]]
    /\ startLog' = [u \in DOMAIN startLog |-> Logged(startLog[u], Cardinality(Begun(u)))]
    /\ rpcLog' = [u \in DOMAIN rpcLog |-> Logged(rpcLog[u], Cardinality(Begun(u)))]
    /\ UNCHANGED <<opVars, svcVars>>

\* A timer of the PQueue of u, or the end of its interval, is due now.
Due(u) == timerDue[u] = now /\ (pq[u].intervalId \/ pq[u].timeoutId \/ pq[u].windowOpen)

\* The clock advances by one tick; no timer is overdue.
ClockTick ==
    /\ now < MaxTime
    /\ \A u \in RateLimited : ~Due(u)
    /\ now' = now + 1
    /\ startLog' = [u \in DOMAIN startLog |-> Recent(startLog[u], now + 1)]
    /\ rpcLog' = [u \in DOMAIN rpcLog |-> Recent(rpcLog[u], now + 1)]
    /\ UNCHANGED <<cfgVars, mgrVars, monVars, timerDue, opVars, svcVars>>

\* The rate limits of the timed runs: rps with a burst, and rps alone.
RateLimits == {[rps |-> 2, burst |-> 1], [rps |-> 2, burst |-> 0], [rps |-> 1, burst |-> 0]}

\* A manager of the one endpoint A with a rate limit.
InitRate ==
    /\ \E rl \in RateLimits :
           Constructed(<<"A">>, "A" :> rl, DefaultThreshold, {NoUrl}, NumRateCalls)
    /\ MonitorsConstructed("A")
    /\ ClockStarted
    /\ ServicesConstructed

\* The calls, the PQueue timers and close() against the clock; a liveness check
\* succeeds or fails with an error that is not retried, and the initial health
\* probe stays in flight.
NextRate ==
    \/ \E c \in Calls : GetConnection(c) /\ Timed({})
    \/ \E c \in Calls : AttemptSucceed(c) /\ Timed({})
    \/ \E c \in Calls : AttemptFail(c, "typeError") /\ Timed({})
    \/ \E u \in RateLimited : Due(u) /\ QueueInterval(u) /\ Timed({u})
    \/ \E u \in RateLimited : Due(u) /\ QueueResume(u) /\ Timed({u})
    \/ \E u \in RateLimited : Due(u) /\ QueueWindowEnd(u) /\ Timed({})
    \/ CloseStart /\ Timed({})
    \/ CloseContinue /\ Timed({})
    \/ ClockTick

\* The burst allowance of an endpoint's rate limit: its burst, and
\* requestsPerSecond when no burst is configured.
BurstAllowance(u) == IF HasBurst(u) THEN Burst(u) ELSE Rps(u)

\* The admitted tasks of the PQueue of u that are executing.
Executing(u) == {c \in Calls : calls[c].pc = "attempting" /\ calls[c].url = u}

\* C12: for an endpoint limited to N requests per second, no more than N plus
\* the burst allowance admitted tasks begin within any one second.
C12_StartsPerSlidingWindow ==
    \A u \in RateLimited : Len(startLog[u]) <= Rps(u) + BurstAllowance(u)

\* C13: the RPC calls sent to a rate-limited endpoint within any one second,
\* liveness checks and health probes together, do not exceed its
\* requests-per-second budget.
C13_RpcCallsWithinBudget ==
    \A u \in RateLimited : Len(rpcLog[u]) <= Rps(u)

\* C14: the admitted tasks of a rate-limited endpoint that execute at the same
\* time never exceed burst, and never exceed requestsPerSecond when no burst is
\* configured.
C14_BoundedConcurrency ==
    \A u \in RateLimited :
        Cardinality(Executing(u)) <= (IF HasBurst(u) THEN Burst(u) ELSE Rps(u))

\* Without a burst, two tasks executing at a limit of 2 while a third waits; with
\* a burst of 1, one task executing while another waits.
C14_Witness ==
    \E u \in RateLimited :
        /\ Len(pq[u].queue) > 0
        /\ \/ ~HasBurst(u) /\ Rps(u) = 2 /\ Cardinality(Executing(u)) = 2
           \/ HasBurst(u) /\ Burst(u) < Rps(u) /\ Cardinality(Executing(u)) = Burst(u)

SpecRate == InitRate /\ [][NextRate]_vars

\* ------------------------------------------------------------------ monitors

\* Map.delete(key)
Without(m, key) == [k \in DOMAIN m \ {key} |-> m[k]]

\* Map.set(key, value)
With(m, key, value) == [k \in DOMAIN m \cup {key} |-> IF k = key THEN value ELSE m[k]]

\* The listeners of a Connection that deliver the logs of target.
ListenersOf(listeners, target) == {id \in DOMAIN listeners : listeners[id] = target}

\* JavaScript's if (subscriptionId): undefined and 0 are falsy.
Truthy(m, key) == key \in DOMAIN m /\ m[key] # 0

\* TransactionMonitor.subscribeToProgram(config): connection.onLogs registers the
\* listener and returns the id the provider chose, any id not in use.
SubscribeToProgram(program, id) ==
    /\ id \notin DOMAIN logListeners
    /\ IF program \in DOMAIN programSubscriptions
       THEN UNCHANGED <<programSubscriptions, logListeners>>
       ELSE /\ logListeners' = With(logListeners, id, program)
            /\ programSubscriptions' = With(programSubscriptions, program, id)
    /\ monOp' = [op |-> "subscribeToProgram", target |-> program]
    /\ UNCHANGED <<cfgVars, mgrVars, monitorConn, cache, activeSubscriptions, monitoringTargets,
                   rtListeners>>

\* TransactionMonitor.unsubscribeFromProgram(programId)
UnsubscribeFromProgram(program) ==
    /\ IF Truthy(programSubscriptions, program)
       THEN /\ logListeners' = Without(logListeners, programSubscriptions[program])
            /\ programSubscriptions' = Without(programSubscriptions, program)
       ELSE UNCHANGED <<programSubscriptions, logListeners>>
    /\ monOp' = [op |-> "unsubscribeFromProgram", target |-> program]
    /\ UNCHANGED <<cfgVars, mgrVars, monitorConn, cache, activeSubscriptions, monitoringTargets,
                   rtListeners>>

\* TransactionMonitor.clearSubscriptions()
ClearSubscriptions ==
    /\ logListeners' = [id \in DOMAIN logListeners \
                            {programSubscriptions[q] : q \in DOMAIN programSubscriptions}
                        |-> logListeners[id]]
    /\ programSubscriptions' = EmptyMap
    /\ monOp' = [op |-> "clearSubscriptions", target |-> NoUrl]
    /\ UNCHANGED <<cfgVars, mgrVars, monitorConn, cache, activeSubscriptions, monitoringTargets,
                   rtListeners>>

\* The provider delivers a log notification to a registered listener: the
\* callback of subscribeToProgram parses it (parsed: parseFunction returns),
\* emits 'programLog' and caches the parsed logs, or catches and emits
\* 'programLogError'.
DeliverLog(id, parsed) ==
    /\ id \in DOMAIN logListeners
    /\ monOp' = [op |-> IF parsed THEN "programLog" ELSE "programLogError",
                 target |-> logListeners[id]]
    /\ cache' = IF parsed THEN cache \cup {logListeners[id]} ELSE cache
    /\ UNCHANGED <<cfgVars, mgrVars, monitorConn, programSubscriptions, logListeners,
                   activeSubscriptions, monitoringTargets, rtListeners>>

\* SolGuardRealTimeMonitor.addMonitoringTarget(target), for a target of type
\* 'program': subscribeToProgramLogs registers the listener and stores
\* {unsubscribe: () => subscription} under the address.
AddMonitoringTarget(address, id) ==
    /\ id \notin DOMAIN rtListeners
    /\ monitoringTargets' = monitoringTargets \cup {address}
    /\ rtListeners' = With(rtListeners, id, address)
    /\ activeSubscriptions' = With(activeSubscriptions, address, id)
    /\ monOp' = [op |-> "addMonitoringTarget", target |-> address]
    /\ UNCHANGED <<cfgVars, mgrVars, monitorConn, cache, programSubscriptions, logListeners>>

\* SolGuardRealTimeMonitor.removeMonitoringTarget(address): the stored
\* unsubscribe() only returns the subscription id.
RemoveMonitoringTarget(address) ==
    /\ activeSubscriptions' = IF address \in DOMAIN activeSubscriptions
                              THEN Without(activeSubscriptions, address)
                              ELSE activeSubscriptions
    /\ monitoringTargets' = monitoringTargets \ {address}
    /\ monOp' = [op |-> "removeMonitoringTarget", target |-> address]
    /\ UNCHANGED <<cfgVars, mgrVars, monitorConn, cache, programSubscriptions, logListeners,
                   rtListeners>>

\* The provider delivers a log notification to a listener of the real-time
\* monitor: the callback of subscribeToProgramLogs runs processUpdate.
DeliverUpdate(id) ==
    /\ id \in DOMAIN rtListeners
    /\ monOp' = [op |-> "processUpdate", target |-> rtListeners[id]]
    /\ UNCHANGED <<cfgVars, mgrVars, monitorConn, cache, programSubscriptions, logListeners,
                   activeSubscriptions, monitoringTargets, rtListeners>>

SubscriptionIds == 0..MaxSubscriptionId

\* The manager without rate limits, with one getConnection call; the
\* TransactionMonitor is built with the Connection of the current endpoint.
InitSub ==
    /\ Constructed(<<"A", "B">>, EmptyMap, DefaultThreshold, {NoUrl}, 1)
    /\ MonitorsConstructed("A")
    /\ ClockStarted
    /\ ServicesConstructed

\* The calls of the manager and the operations of the monitors; the health
\* probes stay in flight.  (The clock is not followed.)
NextSub ==
    \/ \E c \in Calls : GetConnection(c) /\ UNCHANGED <<rateVars, opVars, svcVars>>
    \/ \E c \in Calls : AttemptSucceed(c) /\ UNCHANGED <<rateVars, opVars, svcVars>>
    \/ \E c \in Calls, kind \in {"transient", "typeError"} : AttemptFail(c, kind) /\ UNCHANGED <<rateVars, opVars, svcVars>>
    \/ \E program \in Programs, id \in SubscriptionIds : SubscribeToProgram(program, id) /\ UNCHANGED <<rateVars, opVars, svcVars>>
    \/ \E program \in Programs : UnsubscribeFromProgram(program) /\ UNCHANGED <<rateVars, opVars, svcVars>>
    \/ ClearSubscriptions /\ UNCHANGED <<rateVars, opVars, svcVars>>
    \/ \E id \in SubscriptionIds, parsed \in BOOLEAN : DeliverLog(id, parsed) /\ UNCHANGED <<rateVars, opVars, svcVars>>
    \/ \E address \in Programs, id \in SubscriptionIds : AddMonitoringTarget(address, id) /\ UNCHANGED <<rateVars, opVars, svcVars>>
    \/ \E address \in Programs : RemoveMonitoringTarget(address) /\ UNCHANGED <<rateVars, opVars, svcVars>>
    \/ \E id \in SubscriptionIds : DeliverUpdate(id) /\ UNCHANGED <<rateVars, opVars, svcVars>>

\* The url of the Connection the real-time monitor builds for itself from
\* process.env.SOLANA_RPC_URL; its subscriptions stay on it.
RealTimeEndpoint == "SOLANA_RPC_URL"

\* C9: after a failover changed the current endpoint to newUrl, every
\* subscription that was active before is attached to newUrl, and the
\* subscribed targets are the same as before.
C9_SubscriptionsFollowFailover ==
    [][(lastSwitch' # NoSwitch /\ lastSwitch' # lastSwitch /\ currentEndpoint' # currentEndpoint) =>
        /\ DOMAIN programSubscriptions' = DOMAIN programSubscriptions
        /\ DOMAIN activeSubscriptions' = DOMAIN activeSubscriptions
        /\ \A program \in DOMAIN programSubscriptions : monitorConn' = currentEndpoint'
        /\ \A address \in DOMAIN activeSubscriptions : RealTimeEndpoint = currentEndpoint']_vars

\* C10: after unsubscribeFromProgram(target) or removeMonitoringTarget(target)
\* the target is not in the subscription map and no listener for it is left
\* at the provider (so no further event for it is delivered), whatever id
\* the provider returned at subscribe time.
C10_UnsubscribeRemoves ==
    /\ monOp.op = "unsubscribeFromProgram" =>
           /\ monOp.target \notin DOMAIN programSubscriptions
           /\ ListenersOf(logListeners, monOp.target) = {}
    /\ monOp.op = "removeMonitoringTarget" =>
           /\ monOp.target \notin DOMAIN activeSubscriptions
           /\ ListenersOf(rtListeners, monOp.target) = {}

\* The fields of the TransactionMonitor the log callback can reach.
MonitorFields == <<monitorConn, programSubscriptions, cache>>

\* C11: when the parsing of a delivered notification fails, the monitor counts
\* the drop (a field of the monitor changes), 'programLog' is not emitted for
\* the payload, and the subscription and its listener stay.
C11_MalformedCountedAndDropped ==
    [][(monOp' # monOp /\ monOp'.op = "programLogError") =>
        /\ MonitorFields' # MonitorFields
        /\ monOp'.op # "programLog"
        /\ programSubscriptions' = programSubscriptions
        /\ logListeners' = logListeners]_vars

SpecSub == InitSub /\ [][NextSub]_vars

\* ------------------------------------------------------------ risk score service

\* CACHE_TTL (5 minutes) and MAX_CACHE_SIZE (1000), scaled to the ticks and
\* the token addresses of the runs.
CACHE_TTL == 2

MAX_CACHE_SIZE == 2

MaxRiskTime == 2

\* The token addresses the callers pass; the Solana service answers for all.
Tokens == {"", "token1", "token2"}

\* The total scores of the analyses of the runs.
Scores == {30, 90}

\* getRiskLevel(score)
GetRiskLevel(score) ==
    IF score >= 80 THEN "low"
    ELSE IF score >= 60 THEN "medium"
    ELSE IF score >= 40 THEN "high"
    ELSE "critical"

\* The README's Risk Level Classification.
DocumentedLevel(score) ==
    IF score <= 25 THEN "critical"
    ELSE IF score <= 50 THEN "high"
    ELSE IF score <= 75 THEN "medium"
    ELSE "low"

\* this.cache.get(tokenAddress): the positions of the entry (at most one).
CachedAt(token) == {i \in DOMAIN riskCache : riskCache[i].key = token}

\* A cache check that takes an entry of age CACHE_TTL for fresh.
FreshInclusive(entry, t) == t - entry.timestamp <= CACHE_TTL

\* "(now - cached.timestamp) < this.CACHE_TTL"
Fresh(entry, t) == t - entry.timestamp < CACHE_TTL

\* this.cache.set(key, entry): an existing key keeps its place in the Map.
CacheSet(c, key, entry) ==
    IF \E i \in DOMAIN c : c[i].key = key
    THEN [i \in DOMAIN c |-> IF c[i].key = key THEN entry ELSE c[i]]
    ELSE Append(c, entry)

\* "if (this.cache.size > this.MAX_CACHE_SIZE)": the first key is deleted,
\* "if (firstKey)": unless it is the empty string.
EnforceLimit(c) ==
    IF Len(c) > MAX_CACHE_SIZE /\ c[1].key # "" THEN Tail(c) ELSE c

\* calculateRiskScore, from "this.cache.set" to "return riskScore".
CacheAndReturn(c, value) ==
    /\ riskCache' = EnforceLimit(CacheSet(riskCache, riskCalls[c].token,
                         [key |-> riskCalls[c].token, value |-> value, timestamp |-> riskTime]))
    /\ riskCalls' = [riskCalls EXCEPT ![c].pc = "returned", ![c].value = value]

\* calculateRiskScore(tokenAddress, {includeHistory}) up to its first await: a
\* fresh entry is returned, or the three analyses call the Solana service.
CalculateRiskScore(c, token, includeHistory) ==
    /\ riskCalls[c].pc \in {"idle", "returned", "raised"}
    /\ LET hit == {i \in CachedAt(token) : ~includeHistory /\ Fresh(riskCache[i], riskTime)}
       IN riskCalls' = [riskCalls EXCEPT ![c] =
            IF hit # {}
            THEN [pc |-> "returned", token |-> token, includeHistory |-> includeHistory,
                  fetched |-> FALSE, value |-> riskCache[CHOOSE i \in hit : TRUE].value]
            ELSE [pc |-> "analysing", token |-> token, includeHistory |-> includeHistory,
                  fetched |-> TRUE, value |-> NoValue]]
    /\ UNCHANGED <<riskCache, riskTime>>

\* The three analyses resolve with a total score: the level is taken, the
\* history stored if asked for, else the score cached and returned.
AnalysesResolve(c, score) ==
    /\ riskCalls[c].pc = "analysing"
    /\ LET value == [score |-> score, level |-> GetRiskLevel(score)]
       IN IF riskCalls[c].includeHistory
          THEN /\ riskCalls' = [riskCalls EXCEPT ![c].pc = "storing", ![c].value = value]
               /\ riskCache' = riskCache
          ELSE CacheAndReturn(c, value)
    /\ riskTime' = riskTime

\* An analysis or database.storeRiskScore rejects: the call raises.
RiskCallRejects(c) ==
    /\ riskCalls[c].pc \in {"analysing", "storing"}
    /\ riskCalls' = [riskCalls EXCEPT ![c].pc = "raised", ![c].value = NoValue]
    /\ UNCHANGED <<riskCache, riskTime>>

\* storeRiskScoreHistory resolves: the score is cached and returned.
HistoryStored(c) ==
    /\ riskCalls[c].pc = "storing"
    /\ CacheAndReturn(c, riskCalls[c].value)
    /\ riskTime' = riskTime

\* Date.now() advances.
RiskTick ==
    /\ riskTime < MaxRiskTime
    /\ riskTime' = riskTime + 1
    /\ UNCHANGED <<riskCache, riskCalls>>

\* What the risk score service leaves alone.
RiskFrame == UNCHANGED <<cfgVars, mgrVars, monVars, rateVars, opVars, walletVars>>

NextRisk ==
    \/ \E c \in DOMAIN riskCalls, token \in Tokens, includeHistory \in BOOLEAN :
            CalculateRiskScore(c, token, includeHistory) /\ RiskFrame
    \/ \E c \in DOMAIN riskCalls, score \in Scores : AnalysesResolve(c, score) /\ RiskFrame
    \/ \E c \in DOMAIN riskCalls : RiskCallRejects(c) /\ RiskFrame
    \/ \E c \in DOMAIN riskCalls : HistoryStored(c) /\ RiskFrame
    \/ RiskTick /\ RiskFrame

\* The managers and monitors of InitSub, which take no step in these runs.
InitRisk == InitSub

SpecRisk == InitRisk /\ [][NextRisk]_vars

\* C22: the cache holds at most MAX_CACHE_SIZE entries.
C22_CacheBounded == Len(riskCache) <= MAX_CACHE_SIZE

\* The step is calculateRiskScore called as call c.
Invoked(c) == riskCalls[c].pc \in {"idle", "returned", "raised"} /\ riskCalls'[c] # riskCalls[c]

\* C23: a call without includeHistory for a token whose cache entry is younger
\* than the TTL returns the cached score and does not call the Solana service;
\* with an entry at or past the TTL, with no entry, or with includeHistory, the
\* call goes to the Solana service for a new score.
C23_CacheHitOrRecompute ==
    [][\A c \in DOMAIN riskCalls :
        Invoked(c) =>
            LET call == riskCalls'[c]
                young == {i \in DOMAIN riskCache :
                            /\ riskCache[i].key = call.token
                            /\ riskTime - riskCache[i].timestamp < CACHE_TTL}
            IN IF young # {} /\ ~call.includeHistory
               THEN /\ call.pc = "returned"
                    /\ ~call.fetched
                    /\ \A i \in young : call.value = riskCache[i].value
               ELSE /\ call.pc = "analysing"
                    /\ call.fetched]_vars

\* A call was answered from an entry one tick short of the TTL while a call
\* with includeHistory for the same token is at the Solana service.
C23_Witness ==
    \E c, d \in DOMAIN riskCalls :
        /\ riskCalls[c].pc = "returned"
        /\ ~riskCalls[c].fetched
        /\ \E i \in DOMAIN riskCache :
              /\ riskCache[i].key = riskCalls[c].token
              /\ riskTime - riskCache[i].timestamp = CACHE_TTL - 1
        /\ riskCalls[d].pc = "analysing"
        /\ riskCalls[d].includeHistory
        /\ riskCalls[d].token = riskCalls[c].token

\* Every integer score.
AllScores == 0..100

\* One caller, one token, every total score.
NextLevel ==
    \/ CalculateRiskScore(1, "token1", FALSE) /\ RiskFrame
    \/ \E score \in AllScores : AnalysesResolve(1, score) /\ RiskFrame
    \/ RiskTick /\ RiskFrame

SpecLevel == InitRisk /\ [][NextLevel]_vars

\* C24: every score a call returns carries the level the README documents for
\* it: critical for 0-25, high for 26-50, medium for 51-75, low for 76-100.
C24_LevelAsDocumented ==
    \A c \in DOMAIN riskCalls :
        riskCalls[c].value # NoValue =>
            riskCalls[c].value.level = DocumentedLevel(riskCalls[c].value.score)

\* --------------------------------------------------------- wallet adapter manager

\* connect() as call c, with the active wallet as given, up to its await or its
\* return: "if (this.connected || this.connecting) return", the checks that
\* throw, and the finally block, which every way out runs.
ConnectFrom(c, active) ==
    IF (active /\ walletConnected) \/ connecting
    THEN /\ connecting' = FALSE
         /\ connectCalls' = [connectCalls EXCEPT ![c] = "returned"]
    ELSE IF ~active \/ ~walletInstalled
    THEN /\ connecting' = FALSE
         /\ connectCalls' = [connectCalls EXCEPT ![c] = "raised"]
    ELSE /\ connecting' = TRUE
         /\ connectCalls' = [connectCalls EXCEPT ![c] = "awaiting"]

\* connect() called by the application.
Connect(c) ==
    /\ c # 0
    /\ connectCalls[c] = "idle"
    /\ ConnectFrom(c, activeWallet)
    /\ UNCHANGED <<activeWallet, walletConnected, walletInstalled, autoConnectTimeout>>

\* The timeout of the constructor fires: autoConnect() makes the installed
\* wallet the active one and calls connect().
AutoConnect ==
    /\ autoConnectTimeout
    /\ autoConnectTimeout' = FALSE
    /\ IF walletInstalled
       THEN /\ activeWallet' = TRUE
            /\ ConnectFrom(0, TRUE)
       ELSE UNCHANGED <<activeWallet, connecting, connectCalls>>
    /\ UNCHANGED <<walletConnected, walletInstalled>>

\* "await this.activeWallet.connect()" settles; the finally block runs.
WalletConnectSettles(c, ok) ==
    /\ connectCalls[c] = "awaiting"
    /\ walletConnected' = (ok \/ walletConnected)
    /\ connecting' = FALSE
    /\ connectCalls' = [connectCalls EXCEPT ![c] = IF ok THEN "returned" ELSE "raised"]
    /\ UNCHANGED <<activeWallet, walletInstalled, autoConnectTimeout>>

\* disconnect(): the active wallet is dropped and disconnected.
Disconnect ==
    /\ activeWallet
    /\ activeWallet' = FALSE
    /\ walletConnected' = FALSE
    /\ UNCHANGED <<connecting, walletInstalled, autoConnectTimeout, connectCalls>>

\* The wallet's readyState changes (the extension is removed or installed).
ReadyStateChange ==
    /\ walletInstalled' = ~walletInstalled
    /\ UNCHANGED <<activeWallet, connecting, walletConnected, autoConnectTimeout, connectCalls>>

\* What the wallet adapter manager leaves alone.
WalletFrame == UNCHANGED <<cfgVars, mgrVars, monVars, rateVars, opVars, riskVars>>

NextWallet ==
    \/ \E c \in DOMAIN connectCalls : Connect(c) /\ WalletFrame
    \/ AutoConnect /\ WalletFrame
    \/ \E c \in DOMAIN connectCalls, ok \in BOOLEAN : WalletConnectSettles(c, ok) /\ WalletFrame
    \/ Disconnect /\ WalletFrame
    \/ ReadyStateChange /\ WalletFrame

SpecWallet == InitRisk /\ [][NextWallet]_vars

\* The connect() calls of the wallet that are in flight.
InFlight == {c \in DOMAIN connectCalls : connectCalls[c] = "awaiting"}

\* C30: at most one call of the wallet's connect() is in flight, and the
\* connecting flag is set while one is.
C30_SingleConnectInFlight ==
    /\ Cardinality(InFlight) <= 1
    /\ InFlight # {} => connecting

====
